---- MODULE Spec2Model ----
(***************************************************************************)
(* Model of aiadvanced.py: the chat window (ChatWindow), its worker thread *)
(* (GeminiWorker), the settings dialog (SettingsDialog) and the            *)
(* configuration file (load_config / save_config).                         *)
(*                                                                         *)
(* Strings are sequences of tokens, so that concatenation is \o, the       *)
(* empty string is <<>>, and Python's "marker in text" is a search for the *)
(* marker token in the sequence.                                           *)
(***************************************************************************)
EXTENDS Integers, Sequences, FiniteSets, TLC

VARIABLES
    GOOGLE_AI_AVAILABLE,  \* module flag set by the import at lines 15-19
    config_file,          \* chat_config.json on disk
    config,               \* the module-level dict `config`
    chat_history,         \* ChatWindow.chat_history
    chat_layout,          \* the message blocks held by ChatWindow.chat_layout
    message_input,        \* text of ChatWindow.message_input
    message_input_enabled,
    send_button_enabled,
    status_label,         \* [text, isError, visible] of ChatWindow.status_label
    timers,               \* pending QTimer.singleShot(duration, hide_specific...), oldest first
    worker,               \* ChatWindow.worker: the GeminiWorker created last
    threads,              \* the GeminiWorker threads that are running
    ui_queue,             \* signals queued to the UI thread by worker threads
    service_call,         \* the last request made to the generative service
    dialog_open,          \* a modal SettingsDialog is executing
    selected_color,       \* SettingsDialog.selected_color of that dialog
    handler               \* the handler the UI thread ran last

vars == <<GOOGLE_AI_AVAILABLE, config_file, config, chat_history, chat_layout,
          message_input, message_input_enabled, send_button_enabled,
          status_label, timers, worker, threads, ui_queue, service_call,
          dialog_open, selected_color, handler>>

---------------------------------------------------------------------------
(* Bounds of the model *)

\* send_message is explored while the chat layout has room for a
\* question and its answer within MaxBlocks blocks.
MaxBlocks == 4

\* A handler that schedules expiry timers is explored while the pending
\* timers stay within MaxTimers.
MaxTimers == 2

---------------------------------------------------------------------------
(* Strings *)

EmptyStr == <<>>

\* Python: marker in text
Contains(text, marker) == \E i \in DOMAIN text : text[i] = marker

IsSpace(tok) == tok = " "

RECURSIVE LStrip(_)
LStrip(s) ==
    IF s # <<>> /\ IsSpace(Head(s)) THEN LStrip(Tail(s)) ELSE s

RECURSIVE RStrip(_)
RStrip(s) ==
    IF s # <<>> /\ IsSpace(s[Len(s)]) THEN RStrip(SubSeq(s, 1, Len(s) - 1)) ELSE s

\* Python: str.strip()
Strip(s) == RStrip(LStrip(s))

\* Python: str.lower() of each token of the texts of this module, as
\* <<token, token.lower()>>
LowerTable ==
    { <<" ", " ">>,
      <<" (", " (">>,
      <<" exceeded", " exceeded">>,
      <<" exceeded: ", " exceeded: ">>,
      <<")", ")">>,
      <<". Please configure it in Settings.", ". please configure it in settings.">>,
      <<". Please modify your prompt.", ". please modify your prompt.">>,
      <<". Please pass a valid API key.", ". please pass a valid api key.">>,
      <<"...", "...">>,
      <<"400 ", "400 ">>,
      <<"403 ", "403 ">>,
      <<"404 ", "404 ">>,
      <<"429 ", "429 ">>,
      <<"504 ", "504 ">>,
      <<": ", ": ">>,
      <<"AI is thinking...", "ai is thinking...">>,
      <<"API Error: ", "api error: ">>,
      <<"API Error: Invalid API Key. Please check it in Settings.", "api error: invalid api key. please check it in settings.">>,
      <<"API Error: Model not found. Check the model name.", "api error: model not found. check the model name.">>,
      <<"API Error: Permission denied. Check API key permissions.", "api error: permission denied. check api key permissions.">>,
      <<"API Error: Quota exceeded. Please check your Google AI usage limits.", "api error: quota exceeded. please check your google ai usage limits.">>,
      <<"API Error: Request timed out. Please try again.", "api error: request timed out. please try again.">>,
      <<"API Key not set", "api key not set">>,
      <<"API key not valid", "api key not valid">>,
      <<"API response candidate parts contained no text.", "api response candidate parts contained no text.">>,
      <<"API_KEY_INVALID", "api_key_invalid">>,
      <<"Deadline Exceeded", "deadline exceeded">>,
      <<"Error: ", "error: ">>,
      <<"Google AI library not installed.", "google ai library not installed.">>,
      <<"google-generativeai not found", "google-generativeai not found">>,
      <<"NotFound", "notfound">>,
      <<"Permission Denied", "permission denied">>,
      <<"Permission denied", "permission denied">>,
      <<"PermissionDenied", "permissiondenied">>,
      <<"QUOTA", "quota">>,
      <<"Quota", "quota">>,
      <<"RESOURCE_EXHAUSTED", "resource_exhausted">>,
      <<"Received an empty or unexpected response format from the API.", "received an empty or unexpected response format from the api.">>,
      <<"Request blocked: ", "request blocked: ">>,
      <<"SAFETY", "safety">>,
      <<"Warning: ", "warning: ">>,
      <<"connection reset", "connection reset">>,
      <<"gemini-1.5-flash", "gemini-1.5-flash">>,
      <<"hello", "hello">>,
      <<"hi", "hi">>,
      <<"k", "k">>,
      <<"k1", "k1">>,
      <<"models/", "models/">>,
      <<"o", "o">>,
      <<"ok", "ok">>,
      <<"permission denied", "permission denied">>,
      <<"quota", "quota">>,
      <<"text failed", "text failed">>,
      <<"x", "x">> }

\* Python: str.lower() of one token; the tokens are those of LowerTable
LowerTok(tok) == (CHOOSE p \in LowerTable : p[1] = tok)[2]

\* Python: str.lower(), token by token
Lower(s) == [i \in DOMAIN s |-> LowerTok(s[i])]

---------------------------------------------------------------------------
(* Configuration handling, lines 23-63 *)

DEFAULT_CONFIG ==
    [api_key |-> EmptyStr, theme |-> "light", accent_color |-> "#3498db"]

ConfigKeys == {"api_key", "theme", "accent_color"}

\* PySide6 QColor(value): the constructor accepts any string (an unknown
\* colour name gives an invalid QColor, without raising) and raises
\* TypeError for a value of a type it has no overload for.
QColorRaises(value) == value \in {"<list>", "<dict>", "<null>"}

\* Mutant of load_config: the defaults are merged over the file's data.
load_config_DefaultsWin(file) ==
    IF file.kind \in {"absent", "malformed", "emptyseq"}
    THEN [raised |-> FALSE, value |-> DEFAULT_CONFIG]
    ELSE IF file.kind \in {"unreadable", "undecodable", "unloadable", "nonobject"}
    THEN [raised |-> TRUE]
    ELSE [raised |-> FALSE,
          value |-> [k \in ConfigKeys \cup DOMAIN file.data |->
                        IF k \in ConfigKeys THEN DEFAULT_CONFIG[k] ELSE file.data[k]]]

\* A file is [kind |-> "absent"], [kind |-> "unreadable"] (open() raises
\* OSError), [kind |-> "undecodable"] (its bytes are no text in the
\* encoding open() uses, UTF-8 by default: json.load raises
\* UnicodeDecodeError, which is no JSONDecodeError), [kind |-> "malformed"]
\* (text that is not JSON), [kind |-> "unloadable"] (JSON text, an object
\* or not, that json.load cannot build: nesting beyond the recursion
\* limit raises RecursionError, an integer beyond the digit limit raises
\* ValueError), [kind |-> "nonobject"]
\* (JSON that dict.update() rejects: a number, null, true, [1, 2], "ab"),
\* [kind |-> "emptyseq"] (the JSON [] or "", which dict.update() takes as
\* no items), [kind |-> "pairs", data |-> the keys and values] (a JSON
\* array of two-element arrays or two-character strings, which
\* dict.update() takes as key/value pairs: [["theme", "dark"]], ["ab"])
\* or [kind |-> "object", data |-> the JSON object].
\* load_config answers [raised |-> FALSE, value |-> record] or
\* [raised |-> TRUE].
load_config(file) ==
    IF file.kind = "absent" THEN [raised |-> FALSE, value |-> DEFAULT_CONFIG]
    ELSE IF file.kind = "unreadable" THEN [raised |-> TRUE]
    ELSE IF file.kind = "undecodable" THEN [raised |-> TRUE]
    ELSE IF file.kind = "unloadable" THEN [raised |-> TRUE]
    ELSE IF file.kind = "malformed" THEN [raised |-> FALSE, value |-> DEFAULT_CONFIG]
    ELSE IF file.kind = "nonobject" THEN [raised |-> TRUE]
    ELSE IF file.kind = "emptyseq" THEN [raised |-> FALSE, value |-> DEFAULT_CONFIG]
    ELSE
        \* an object, or pairs that update() merges as it merges an object
        LET config_data == file.data
            merged_config ==
                [k \in ConfigKeys \cup DOMAIN config_data |->
                    IF k \in DOMAIN config_data THEN config_data[k]
                    ELSE DEFAULT_CONFIG[k]]
        IN  IF QColorRaises(merged_config["accent_color"])
            THEN [raised |-> FALSE,
                  value |-> [merged_config EXCEPT
                                !["accent_color"] = DEFAULT_CONFIG["accent_color"]]]
            ELSE [raised |-> FALSE, value |-> merged_config]

\* save_config(config_to_save) with the outcome of the write: "ok",
\* "open_failed" (open() raises IOError, the file is untouched) or
\* "write_failed" (the file was truncated by open() and the dump failed).
save_config(file, config_to_save, outcome) ==
    CASE outcome = "ok" -> [kind |-> "object", data |-> config_to_save]
      [] outcome = "open_failed" -> file
      [] outcome = "write_failed" -> [kind |-> "malformed"]

SaveOutcomes == {"ok", "open_failed", "write_failed"}

\* Mutant of HasApiKey: the credential is not checked.
HasApiKey_Unchecked(cfg) == TRUE

\* Python truthiness of config.get("api_key")
HasApiKey(cfg) == cfg["api_key"] # EmptyStr

---------------------------------------------------------------------------
(* Status label, lines 475-496 *)

DefaultDuration == 5000

KeyMarker == "API Key not set"
LibMarker == "google-generativeai not found"

\* Python truthiness of the label's "isError" property (None, True, False)
Truthy(v) == v = "True"

\* show_status_message(message, error, duration): the label and the
\* pending timers after the call
show_status_message(label, tm, message, error, duration) ==
    LET is_persistent ==
            \/ duration = 0
            \/ Contains(message, KeyMarker)
            \/ Contains(message, LibMarker)
    IN  [label |-> [text |-> message,
                    isError |-> IF error THEN "True" ELSE "False",
                    visible |-> TRUE],
         timers |-> IF ~is_persistent
                    THEN Append(tm, [duration |-> duration, message |-> message])
                    ELSE tm]

\* Mutant of hide_specific_status_message: the text is not compared.
hide_specific_status_message_AnyText(label, message_to_hide) ==
    IF label.visible
    THEN LET is_error == label.isError
             is_persistent_error ==
                 Truthy(is_error) /\ (Contains(message_to_hide, KeyMarker)
                                      \/ Contains(message_to_hide, LibMarker))
         IN  IF ~is_persistent_error THEN [label EXCEPT !.visible = FALSE] ELSE label
    ELSE label

\* hide_specific_status_message(message_to_hide): the label after the call
hide_specific_status_message(label, message_to_hide) ==
    IF label.visible /\ label.text = message_to_hide
    THEN LET is_error == label.isError
             is_persistent_error ==
                 Truthy(is_error) /\ (Contains(message_to_hide, KeyMarker)
                                      \/ Contains(message_to_hide, LibMarker))
         IN  IF ~is_persistent_error THEN [label EXCEPT !.visible = FALSE] ELSE label
    ELSE label

\* hide_status_message(): the label after the call
hide_status_message(label) ==
    LET text == label.text
        is_error == label.isError
        is_persistent ==
            Truthy(is_error) /\ (Contains(text, KeyMarker) \/ Contains(text, LibMarker))
    IN  IF ~is_persistent THEN [label EXCEPT !.visible = FALSE] ELSE label

\* update_status_based_on_config(): the label and timers after the call
update_status_based_on_config(avail, cfg, label, tm) ==
    IF ~avail
    THEN show_status_message(label, tm, <<"Warning: ", LibMarker, "...">>, TRUE, 0)
    ELSE IF ~HasApiKey(cfg)
    THEN show_status_message(label, tm, <<KeyMarker, "...">>, TRUE, 0)
    ELSE [label |-> hide_status_message(label), timers |-> tm]

---------------------------------------------------------------------------
(* GeminiWorker, lines 67-138 *)

ResponseReceived(text) == [sig |-> "response_received", arg |-> text]
ErrorOccurred(text) == [sig |-> "error_occurred", arg |-> text]
Finished == [sig |-> "finished", arg |-> EmptyStr]

NoCall == [api |-> "none", history |-> <<>>, message |-> EmptyStr]

\* "".join(part.text for part in candidate_parts if hasattr(part, 'text'))
RECURSIVE JoinPartTexts(_)
JoinPartTexts(parts) ==
    IF parts = <<>> THEN EmptyStr
    ELSE (IF Head(parts).has_text THEN Head(parts).text ELSE EmptyStr)
         \o JoinPartTexts(Tail(parts))

\* Mutant of ClassifyException: the quota test comes before the key test.
ClassifyException_QuotaFirst(e) ==
    IF Contains(Lower(e), "quota") \/ Contains(e, "RESOURCE_EXHAUSTED")
    THEN <<"API Error: Quota exceeded. Please check your Google AI usage limits.">>
    ELSE IF Contains(e, "API key not valid") \/ Contains(e, "API_KEY_INVALID")
    THEN <<"API Error: Invalid API Key. Please check it in Settings.">>
    ELSE IF Contains(e, "Deadline Exceeded")
    THEN <<"API Error: Request timed out. Please try again.">>
    ELSE IF Contains(e, "PermissionDenied") \/ Contains(Lower(e), "permission denied")
    THEN <<"API Error: Permission denied. Check API key permissions.">>
    ELSE IF Contains(e, "NotFound") /\ Contains(e, "models/")
    THEN <<"API Error: Model not found. Check the model name.">>
    ELSE <<"API Error: ">> \o e

\* lines 124-138: the message emitted for an exception whose str() is e
ClassifyException(e) ==
    IF Contains(e, "API key not valid") \/ Contains(e, "API_KEY_INVALID")
    THEN <<"API Error: Invalid API Key. Please check it in Settings.">>
    ELSE IF Contains(Lower(e), "quota") \/ Contains(e, "RESOURCE_EXHAUSTED")
    THEN <<"API Error: Quota exceeded. Please check your Google AI usage limits.">>
    ELSE IF Contains(e, "Deadline Exceeded")
    THEN <<"API Error: Request timed out. Please try again.">>
    ELSE IF Contains(e, "PermissionDenied") \/ Contains(Lower(e), "permission denied")
    THEN <<"API Error: Permission denied. Check API key permissions.">>
    ELSE IF Contains(e, "NotFound") /\ Contains(e, "models/")
    THEN <<"API Error: Model not found. Check the model name.">>
    ELSE <<"API Error: ">> \o e

\* lines 120-122: reached when nothing was emitted before
EmptyResponseCheck(response_text) ==
    IF response_text = EmptyStr
    THEN <<ErrorOccurred(<<"Received an empty or unexpected response format from the API.">>)>>
    ELSE <<>>

\* Mutant of BlockReasonCheck: the return of line 118 is missing.
BlockReasonCheck_NoReturn(response, response_text) ==
    IF response.has_prompt_feedback /\ response.block_reason # ""
    THEN <<ErrorOccurred(<<"Request blocked: ", response.block_reason,
                           ". Please modify your prompt.">>)>>
         \o EmptyResponseCheck(response_text)
    ELSE EmptyResponseCheck(response_text)

\* lines 115-118, then lines 120-122
BlockReasonCheck(response, response_text) ==
    IF response.has_prompt_feedback /\ response.block_reason # ""
    THEN <<ErrorOccurred(<<"Request blocked: ", response.block_reason,
                           ". Please modify your prompt.">>)>>
    ELSE EmptyResponseCheck(response_text)

\* lines 98-122: the signals run emits for a response that was returned
InterpretResponse(response) ==
    IF response.truthy
    THEN IF response.text_error = "none"
         THEN <<ResponseReceived(response.text)>>
         ELSE IF response.text_error # "ValueError"
         THEN \* any other exception reaches the handler of line 124
              <<ErrorOccurred(ClassifyException(response.text_exc))>>
         ELSE \* except ValueError
              IF response.has_candidates /\ response.candidates # <<>>
              THEN LET candidate_parts == response.candidates[1].parts
                   IN  IF candidate_parts # <<>>
                       THEN LET response_text == JoinPartTexts(candidate_parts)
                            IN  IF response_text # EmptyStr
                                THEN <<ResponseReceived(response_text)>>
                                ELSE <<ErrorOccurred(
                                         <<"API response candidate parts contained no text.">>)>>
                       ELSE BlockReasonCheck(response, EmptyStr)
              ELSE BlockReasonCheck(response, EmptyStr)
    ELSE EmptyResponseCheck(EmptyStr)

\* line 90
FormattedHistory(history) ==
    SelectSeq(history, LAMBDA item : {"role", "parts"} \subseteq DOMAIN item)

\* lines 92-96: the request made to the service
ServiceCall(message, history) ==
    LET formatted_history == FormattedHistory(history)
    IN  IF formatted_history = <<>>
        THEN [api |-> "generate_content", history |-> <<>>, message |-> message]
        ELSE [api |-> "start_chat.send_message", history |-> formatted_history,
              message |-> message]

\* lines 80-85: the signal emitted when run returns before any request,
\* no signal when it goes on
RunChecks(avail, api_key) ==
    IF ~avail
    THEN <<ErrorOccurred(<<"Google AI library not installed.">>)>>
    ELSE IF api_key = EmptyStr
    THEN <<ErrorOccurred(<<KeyMarker, ". Please configure it in Settings.">>)>>
    ELSE <<>>

\* GeminiWorker.run with the service's reply: the request made and the
\* signals emitted, in order
run(avail, api_key, message, history, reply) ==
    IF RunChecks(avail, api_key) # <<>>
    THEN [call |-> NoCall, emits |-> RunChecks(avail, api_key)]
    ELSE [call |-> ServiceCall(message, history),
          emits |-> IF reply.kind = "raise"
                    THEN <<ErrorOccurred(ClassifyException(reply.e))>>
                    ELSE InterpretResponse(reply.response)]

---------------------------------------------------------------------------
(* The service's replies *)

TextPart(text) == [has_text |-> TRUE, text |-> text]
OtherPart == [has_text |-> FALSE, text |-> EmptyStr]

\* A response object: its truthiness, what reading response.text does
\* ("none": it returns text; "ValueError"; any other exception, whose
\* str() is text_exc), its candidates and its prompt feedback.
Response(truthy, text_error, text, candidates, block_reason) ==
    [kind |-> "response",
     response |-> [truthy |-> truthy, text_error |-> text_error, text |-> text,
                   text_exc |-> <<"text failed">>,
                   has_candidates |-> TRUE, candidates |-> candidates,
                   has_prompt_feedback |-> TRUE, block_reason |-> block_reason]]

Raise(e) == [kind |-> "raise", e |-> e]

\* The replies explored by the window's specification: text, text found
\* in the candidate's parts, a blocked prompt and an exception.
Replies ==
    { Response(TRUE, "none", <<"ok">>, <<>>, ""),
      Response(TRUE, "ValueError", EmptyStr,
               <<[parts |-> <<TextPart(<<"o">>), OtherPart, TextPart(<<"k">>)>>]>>, ""),
      Response(TRUE, "ValueError", EmptyStr, <<>>, "SAFETY"),
      Raise(<<"connection reset">>) }

---------------------------------------------------------------------------
(* ChatWindow, lines 307-524 *)

Turn(role, text) == [role |-> role, parts |-> <<text>>]

\* add_message_to_chat(text, sender): the layout with one more block
add_message_to_chat(layout, text, sender) ==
    Append(layout, [sender |-> IF sender = "model" THEN "model" ELSE "user",
                    text |-> text])

\* Mutant of clear_chat_display: an if in place of the while of line 521.
clear_chat_display_Once(layout) ==
    IF Len(layout) # 0 THEN Tail(layout) ELSE layout

\* clear_chat_display(): every block is taken out of the layout
RECURSIVE clear_chat_display(_)
clear_chat_display(layout) ==
    IF Len(layout) # 0 THEN clear_chat_display(Tail(layout)) ELSE layout

NoWorker == [api_key |-> EmptyStr, message |-> EmptyStr, history |-> <<>>]

BlankLabel == [text |-> EmptyStr, isError |-> "None", visible |-> FALSE]

\* The configuration files the program may start from.
InitFiles ==
    { [kind |-> "absent"],
      [kind |-> "malformed"],
      [kind |-> "object", data |-> [api_key |-> <<"k1">>]],
      [kind |-> "object",
       data |-> [api_key |-> EmptyStr, theme |-> "dark", accent_color |-> "#3498db"]] }

\* What the user may type into the message field.
RawInputs == { EmptyStr, <<" ">>, <<" ", "hello", " ">> }

\* What the user may enter in the settings dialog.
DialogKeys == { EmptyStr, <<"k1">> }

\* What QColorDialog.getColor may return (line 221): a colour picked, or
\* an invalid colour when the colour dialog was cancelled.
ColorDialogResults ==
    { [isValid |-> TRUE, name |-> "#ff0000"], [isValid |-> FALSE, name |-> "#000000"] }

\* selected_color while no settings dialog exists
NoColor == ""

Init ==
    /\ GOOGLE_AI_AVAILABLE \in BOOLEAN
    /\ config_file \in InitFiles
    /\ ~load_config(config_file).raised
    /\ config = load_config(config_file).value
    /\ chat_history = <<>>
    /\ chat_layout = <<>>
    /\ message_input = EmptyStr
    /\ message_input_enabled = TRUE
    /\ send_button_enabled = TRUE
    /\ LET st == update_status_based_on_config(GOOGLE_AI_AVAILABLE, config,
                                               BlankLabel, <<>>)
       IN  status_label = st.label /\ timers = st.timers
    /\ worker = NoWorker
    /\ threads = <<>>
    /\ ui_queue = <<>>
    /\ service_call = NoCall
    /\ dialog_open = FALSE
    /\ selected_color = NoColor
    /\ handler = "__init__"

\* Mutant of EnabledWhileDispatching: the input is left enabled.
EnabledWhileDispatching_LeftEnabled == TRUE

\* line 447: setEnabled(False) on the send button and the message field
EnabledWhileDispatching == FALSE

\* send_message(), lines 437-453, after the user typed raw into the
\* message field (or left what it held) and pressed Return or Send.
send_message(raw) ==
    /\ ~dialog_open
    /\ \/ message_input_enabled
       \/ send_button_enabled /\ raw = message_input
    /\ handler' = "send_message"
    /\ LET user_message == Strip(raw)
           api_key == config["api_key"]
       IN  IF user_message = EmptyStr
           THEN /\ message_input' = raw
                /\ UNCHANGED <<chat_history, chat_layout, message_input_enabled,
                               send_button_enabled, status_label, timers, worker,
                               threads>>
           ELSE IF ~HasApiKey(config)
           THEN LET st == show_status_message(status_label, timers,
                              <<"Error: ", KeyMarker, "...">>, TRUE, DefaultDuration)
                IN  /\ message_input' = raw
                    /\ status_label' = st.label
                    /\ timers' = st.timers
                    /\ UNCHANGED <<chat_history, chat_layout, message_input_enabled,
                                   send_button_enabled, worker, threads>>
           ELSE IF ~GOOGLE_AI_AVAILABLE
           THEN LET st == show_status_message(status_label, timers,
                              <<"Error: ", "Google AI library not installed.">>,
                              TRUE, DefaultDuration)
                IN  /\ Len(timers) + 1 <= MaxTimers
                    /\ message_input' = raw
                    /\ status_label' = st.label
                    /\ timers' = st.timers
                    /\ UNCHANGED <<chat_history, chat_layout, message_input_enabled,
                                   send_button_enabled, worker, threads>>
           ELSE LET st == show_status_message(status_label, timers,
                              <<"AI is thinking...">>, FALSE, DefaultDuration)
                    history == Append(chat_history, Turn("user", user_message))
                    w == [api_key |-> api_key, message |-> user_message,
                          history |-> history]
                IN  /\ Len(chat_layout) + 2 <= MaxBlocks
                    /\ Len(timers) + 2 <= MaxTimers
                    /\ chat_layout' = add_message_to_chat(chat_layout, user_message, "user")
                    /\ message_input' = EmptyStr
                    /\ status_label' = st.label
                    /\ timers' = st.timers
                    /\ send_button_enabled' = EnabledWhileDispatching
                    /\ message_input_enabled' = EnabledWhileDispatching
                    /\ chat_history' = history
                    /\ worker' = w
                    /\ threads' = Append(threads, [w |-> w, state |-> "running",
                                                        called |-> FALSE])
    /\ UNCHANGED <<GOOGLE_AI_AVAILABLE, config_file, config, ui_queue,
                   service_call, dialog_open,
                   selected_color>>

\* handle_response(ai_message), lines 455-459
handle_response ==
    /\ ui_queue # <<>>
    /\ Head(ui_queue).sig = "response_received"
    /\ LET ai_message == Head(ui_queue).arg
       IN  /\ chat_layout' = add_message_to_chat(chat_layout, ai_message, "model")
           /\ chat_history' = Append(chat_history, Turn("model", ai_message))
           /\ status_label' = hide_status_message(status_label)
    /\ ui_queue' = Tail(ui_queue)
    /\ handler' = "handle_response"
    /\ UNCHANGED <<GOOGLE_AI_AVAILABLE, config_file, config, message_input,
                   message_input_enabled, send_button_enabled, timers, worker,
                   threads, service_call, dialog_open,
                   selected_color>>

\* Mutant of RetractLastUser: the turn is not retracted.
RetractLastUser_Never(history) == history

\* lines 465-466: the transcript after handle_error
RetractLastUser(history) ==
    IF history # <<>> /\ history[Len(history)].role = "user"
    THEN SubSeq(history, 1, Len(history) - 1)
    ELSE history

\* handle_error(error_message), lines 461-466
handle_error ==
    /\ ui_queue # <<>>
    /\ Head(ui_queue).sig = "error_occurred"
    /\ LET error_message == Head(ui_queue).arg
           st == show_status_message(status_label, timers, error_message, TRUE,
                                     DefaultDuration)
       IN  /\ status_label' = st.label
           /\ timers' = st.timers
           /\ chat_history' = RetractLastUser(chat_history)
    /\ ui_queue' = Tail(ui_queue)
    /\ handler' = "handle_error"
    /\ UNCHANGED <<GOOGLE_AI_AVAILABLE, config_file, config, chat_layout,
                   message_input, message_input_enabled, send_button_enabled,
                   worker, threads, service_call, dialog_open,
                   selected_color>>

\* on_worker_finished(), lines 468-473
on_worker_finished ==
    /\ ui_queue # <<>>
    /\ Head(ui_queue).sig = "finished"
    /\ send_button_enabled' = TRUE
    /\ message_input_enabled' = TRUE
    /\ LET is_error == status_label.isError
       IN  status_label' = IF is_error = "None" \/ ~Truthy(is_error)
                           THEN hide_status_message(status_label)
                           ELSE status_label
    /\ ui_queue' = Tail(ui_queue)
    /\ handler' = "on_worker_finished"
    /\ UNCHANGED <<GOOGLE_AI_AVAILABLE, config_file, config, chat_history,
                   chat_layout, message_input, timers, worker, threads,
                   service_call, dialog_open,
                   selected_color>>

\* The oldest pending single-shot timer of show_status_message fires:
\* hide_specific_status_message(message), line 482.
timer_expiry ==
    /\ timers # <<>>
    /\ status_label' = hide_specific_status_message(status_label, Head(timers).message)
    /\ timers' = Tail(timers)
    /\ handler' = "hide_specific_status_message"
    /\ UNCHANGED <<GOOGLE_AI_AVAILABLE, config_file, config, chat_history,
                   chat_layout, message_input, message_input_enabled,
                   send_button_enabled, worker, threads, ui_queue, service_call,
                   dialog_open,
                   selected_color>>

\* open_settings(), lines 498-502: the modal dialog starts executing;
\* its constructor reads the configuration file (line 152) and takes
\* the accent colour from it (line 153).
open_settings ==
    /\ ~dialog_open
    /\ ~load_config(config_file).raised
    /\ dialog_open' = TRUE
    /\ LET current_config == load_config(config_file).value
       IN  selected_color' = IF "accent_color" \in DOMAIN current_config
                             THEN current_config["accent_color"]
                             ELSE DEFAULT_CONFIG["accent_color"]
    /\ handler' = "open_settings"
    /\ UNCHANGED <<GOOGLE_AI_AVAILABLE, config_file, config, chat_history,
                   chat_layout, message_input, message_input_enabled,
                   send_button_enabled, status_label, timers, worker, threads,
                   ui_queue, service_call>>

\* SettingsDialog.choose_color(), lines 217-225: the colour dialog gave
\* color, which is not valid when that dialog was cancelled.
choose_color(color) ==
    /\ dialog_open
    /\ selected_color' = IF color.isValid THEN color.name ELSE selected_color
    /\ handler' = "choose_color"
    /\ UNCHANGED <<GOOGLE_AI_AVAILABLE, config_file, config, chat_history,
                   chat_layout, message_input, message_input_enabled,
                   send_button_enabled, status_label, timers, worker, threads,
                   ui_queue, service_call, dialog_open>>

\* on_settings_changed(), lines 504-511, for the file as it is now
on_settings_changed(file) ==
    LET cfg == load_config(file).value
        st == update_status_based_on_config(GOOGLE_AI_AVAILABLE, cfg,
                                            status_label, timers)
    IN  /\ config' = cfg
        /\ status_label' = st.label
        /\ timers' = st.timers
        /\ chat_layout' = clear_chat_display(chat_layout)
        /\ chat_history' = <<>>

\* SettingsDialog.save_settings(), lines 227-235: Save was pressed with
\* these values in the dialog; settings_changed calls on_settings_changed
\* before the dialog closes.
save_settings(api_key_input, dark_checked, outcome) ==
    /\ dialog_open
    /\ LET edited == [config EXCEPT !["api_key"] = api_key_input,
                                    !["theme"] = IF dark_checked THEN "dark" ELSE "light",
                                    !["accent_color"] = selected_color]
           file == save_config(config_file, edited, outcome)
       IN  /\ config_file' = file
           /\ ~load_config(file).raised
           /\ on_settings_changed(file)
    /\ dialog_open' = FALSE
    /\ selected_color' = NoColor
    /\ handler' = "on_settings_changed"
    /\ UNCHANGED <<GOOGLE_AI_AVAILABLE, message_input, message_input_enabled,
                   send_button_enabled, worker, threads, ui_queue, service_call>>

\* SettingsDialog.reject(), line 202: Cancel was pressed
reject ==
    /\ dialog_open
    /\ dialog_open' = FALSE
    /\ selected_color' = NoColor
    /\ handler' = "reject"
    /\ UNCHANGED <<GOOGLE_AI_AVAILABLE, config_file, config, chat_history,
                   chat_layout, message_input, message_input_enabled,
                   send_button_enabled, status_label, timers, worker, threads,
                   ui_queue, service_call>>

\* GeminiWorker.run(), lines 78-96, in thread i: run returns after the
\* checks of lines 80-85, or it makes the request and waits for the
\* service in its thread.
worker_request(i) ==
    /\ threads[i].state = "running"
    /\ ~threads[i].called
    /\ LET w == threads[i].w
           early == RunChecks(GOOGLE_AI_AVAILABLE, w.api_key)
       IN  IF early # <<>>
           THEN /\ ui_queue' = ui_queue \o early
                /\ service_call' = service_call
                /\ threads' = [threads EXCEPT ![i].state = "returned"]
           ELSE /\ ui_queue' = ui_queue
                /\ service_call' = ServiceCall(w.message, w.history)
                /\ threads' = [threads EXCEPT ![i].called = TRUE]
    /\ UNCHANGED <<GOOGLE_AI_AVAILABLE, config_file, config, chat_history,
                   chat_layout, message_input, message_input_enabled,
                   send_button_enabled, status_label, timers, worker,
                   dialog_open, selected_color, handler>>

\* GeminiWorker.run(), lines 93-138, in thread i: the service answers the
\* request with reply and run emits the outcome.
worker_run(i, reply) ==
    /\ threads[i].state = "running"
    /\ threads[i].called
    /\ LET w == threads[i].w
           r == run(GOOGLE_AI_AVAILABLE, w.api_key, w.message, w.history, reply)
       IN  ui_queue' = ui_queue \o r.emits
    /\ service_call' = service_call
    /\ threads' = [threads EXCEPT ![i].state = "returned"]
    /\ UNCHANGED <<GOOGLE_AI_AVAILABLE, config_file, config, chat_history,
                   chat_layout, message_input, message_input_enabled,
                   send_button_enabled, status_label, timers, worker,
                   dialog_open,
                   selected_color, handler>>

\* Mutant of worker_exit: finished is not connected to on_worker_finished.
worker_exit_NotConnected(i) ==
    /\ threads[i].state = "returned"
    /\ ui_queue' = ui_queue
    /\ threads' = [j \in 1..(Len(threads) - 1) |->
                      IF j < i THEN threads[j] ELSE threads[j + 1]]
    /\ UNCHANGED <<GOOGLE_AI_AVAILABLE, config_file, config, chat_history,
                   chat_layout, message_input, message_input_enabled,
                   send_button_enabled, status_label, timers, worker,
                   service_call, dialog_open,
                   selected_color, handler>>

\* Thread i ends after run returned: QThread emits finished (line 452).
worker_exit(i) ==
    /\ threads[i].state = "returned"
    /\ ui_queue' = Append(ui_queue, Finished)
    /\ threads' = [j \in 1..(Len(threads) - 1) |->
                      IF j < i THEN threads[j] ELSE threads[j + 1]]
    /\ UNCHANGED <<GOOGLE_AI_AVAILABLE, config_file, config, chat_history,
                   chat_layout, message_input, message_input_enabled,
                   send_button_enabled, status_label, timers, worker,
                   service_call, dialog_open,
                   selected_color, handler>>

SendMessage == \E raw \in RawInputs : send_message(raw)

\* The user presses Choose Color and picks a colour or cancels.
ChooseColor == \E color \in ColorDialogResults : choose_color(color)

\* The user edits the key and the theme and presses Save.
SaveSettings ==
    \E api_key_input \in DialogKeys, dark_checked \in BOOLEAN,
       outcome \in SaveOutcomes :
        save_settings(api_key_input, dark_checked, outcome)

WorkerRequest == \E i \in DOMAIN threads : worker_request(i)

WorkerRun == \E i \in DOMAIN threads : \E reply \in Replies : worker_run(i, reply)

WorkerExit == \E i \in DOMAIN threads : worker_exit(i)

Next ==
    \/ SendMessage
    \/ handle_response
    \/ handle_error
    \/ on_worker_finished
    \/ timer_expiry
    \/ open_settings
    \/ ChooseColor
    \/ SaveSettings
    \/ reject
    \/ WorkerRequest
    \/ WorkerRun
    \/ WorkerExit

Spec == Init /\ [][Next]_vars

\* The application with its scheduling: a started thread runs and its
\* service call returns or raises, a thread whose run returned ends, and
\* the event loop delivers every queued signal to its slot.
FairSpec ==
    /\ Spec
    /\ WF_vars(WorkerRequest)
    /\ WF_vars(WorkerRun)
    /\ WF_vars(WorkerExit)
    /\ WF_vars(handle_response)
    /\ WF_vars(handle_error)
    /\ WF_vars(on_worker_finished)

---------------------------------------------------------------------------
(* Vocabulary of the properties *)

Front(seq) == SubSeq(seq, 1, Len(seq) - 1)
Last(seq) == seq[Len(seq)]

\* Dispatches that are outstanding: threads that run, and threads that
\* ended whose finished signal the window has not handled yet.
InFlight ==
    Len(threads) + Cardinality({i \in DOMAIN ui_queue : ui_queue[i].sig = "finished"})

IsOutcome(ev) == ev.sig \in {"response_received", "error_occurred"}

\* The step is a send_message that started a worker.
Dispatch == SendMessage /\ Len(threads') > Len(threads)

\* The step is a send_message of a message that is not empty: it started
\* a worker, or it was turned down and the field keeps what was typed.
NonEmptySend ==
    SendMessage /\ (Strip(message_input') # EmptyStr \/ Len(threads') > Len(threads))

\* The step is a send_message that was turned down for a message that is
\* not empty.
RejectedSend == NonEmptySend /\ threads' = threads

\* The step is a send_message that started no worker.
TurnedDownSend == SendMessage /\ threads' = threads

\* The kind of failure a notification text reports (section 7 of the
\* specification).
FailureKind(text) ==
    IF Contains(text, KeyMarker) THEN "Unconfigured"
    ELSE IF Contains(text, LibMarker) \/ Contains(text, "Google AI library not installed.")
    THEN "DependencyMissing"
    ELSE "Other"

---------------------------------------------------------------------------
(* C1 *)

\* C1: whenever handle_error runs, the transcript ends with the User
\* turn of the submission that failed and exactly that turn is removed,
\* in every interleaving.
C1_RetractsInEveryInterleaving ==
    [][handle_error =>
          /\ chat_history # <<>>
          /\ Last(chat_history) = Turn("user", worker.message)
          /\ chat_history' = Front(chat_history)]_vars

---------------------------------------------------------------------------
(* C2 *)

\* C2: whenever handle_response runs it appends one Model turn holding
\* the returned text, and the User turn of that submission is the turn
\* right before it, in every interleaving (settings saves included).
C2_ModelTurnFollowsItsUserTurn ==
    [][handle_response =>
          /\ chat_history' = Append(chat_history, Turn("model", Head(ui_queue).arg))
          /\ chat_history # <<>>
          /\ Last(chat_history) = Turn("user", worker.message)]_vars

---------------------------------------------------------------------------
(* C3 *)

\* C3: the transcript never holds two User turns in a row.
C3_NoConsecutiveUserTurns ==
    \A i \in 1..(Len(chat_history) - 1) :
        ~(chat_history[i].role = "user" /\ chat_history[i + 1].role = "user")

\* A second question was asked after the first one was answered.
C3_Witness ==
    /\ Len(chat_history) >= 3
    /\ chat_history[1].role = "user"
    /\ chat_history[2].role = "model"
    /\ chat_history[3].role = "user"

---------------------------------------------------------------------------
(* C4 *)

\* C4: at most one dispatch is in flight, and the message field and the
\* send button are disabled exactly while one is.
C4_AtMostOneInFlight ==
    /\ InFlight <= 1
    /\ message_input_enabled = (InFlight = 0)
    /\ send_button_enabled = (InFlight = 0)

\* Settings were saved while a dispatch is outstanding, and the input is
\* still disabled.
C4_Witness ==
    /\ handler = "on_settings_changed"
    /\ InFlight = 1
    /\ ~message_input_enabled
    /\ ~send_button_enabled

---------------------------------------------------------------------------
(* C5 *)

\* C5: a send of a message that is not empty while the credential is
\* empty starts no worker, makes no service call, leaves the transcript
\* and the blocks as they were, leaves the input enabled and shows the
\* credential notification, for which no expiry is scheduled and which
\* neither of the hiding routines hides.
C5_NoCredentialNoDispatch ==
    [][(NonEmptySend /\ config["api_key"] = EmptyStr) =>
          /\ UNCHANGED <<chat_history, chat_layout, threads, worker, ui_queue,
                         service_call, timers>>
          /\ (chat_history = <<>> => chat_history' = <<>>)
          /\ message_input_enabled' /\ send_button_enabled'
          /\ status_label'.visible
          /\ FailureKind(status_label'.text) = "Unconfigured"
          /\ \A i \in DOMAIN timers' : timers'[i].message # status_label'.text
          /\ hide_status_message(status_label') = status_label'
          /\ hide_specific_status_message(status_label', status_label'.text)
                 = status_label']_vars

\* "hello" was submitted with no credential configured: the transcript is
\* still empty and the credential notification is visible.
C5_Witness ==
    /\ handler = "send_message"
    /\ config["api_key"] = EmptyStr
    /\ Strip(message_input) = <<"hello">>
    /\ chat_history = <<>>
    /\ threads = <<>>
    /\ service_call = NoCall
    /\ status_label.visible
    /\ status_label.text = <<"Error: ", KeyMarker, "...">>

---------------------------------------------------------------------------
(* C6 *)

\* The request C6 expects of a worker: single-turn when no turn precedes
\* the message, else multi-turn seeded with the turns that precede it.
ExpectedCall(w) ==
    LET prior == Front(w.history)
    IN  IF prior = <<>>
        THEN [api |-> "generate_content", history |-> <<>>, message |-> w.message]
        ELSE [api |-> "start_chat.send_message", history |-> prior,
              message |-> w.message]

\* C6: once a worker has made its request, the request is the single-turn
\* call when the prior transcript was empty and the multi-turn call seeded
\* with exactly the prior transcript otherwise.
C6_CallMatchesPriorTranscript ==
    \A i \in DOMAIN threads :
        threads[i].called => service_call = ExpectedCall(threads[i].w)

---------------------------------------------------------------------------
(* C7 *)

\* The step shows a failure notification: a send that was turned down,
\* handle_error, or the status check of a settings save.
ShowsFailure ==
    \/ RejectedSend
    \/ handle_error
    \/ SaveSettings /\ (~GOOGLE_AI_AVAILABLE \/ config'["api_key"] = EmptyStr)

\* C7: a failure notification gets no expiry timer exactly when its kind
\* is Unconfigured or DependencyMissing.
C7_PersistentIffUnconfiguredOrDependencyMissing ==
    [][ShowsFailure =>
          ((timers' = timers)
              <=> FailureKind(status_label'.text) \in {"Unconfigured", "DependencyMissing"})]_vars

---------------------------------------------------------------------------
(* C8 *)

\* A persistent notification of the given kind is the visible notification.
PersistentVisible(label, kind) ==
    /\ label.visible
    /\ label.isError = "True"
    /\ Contains(label.text, IF kind = "Unconfigured" THEN KeyMarker ELSE LibMarker)

\* The condition a persistent notification of the given kind reports.
ConditionHolds(kind, cfg) ==
    IF kind = "Unconfigured" THEN cfg["api_key"] = EmptyStr ELSE ~GOOGLE_AI_AVAILABLE

\* C8: a visible persistent notification stays the visible notification
\* over every step that leaves its condition unresolved.
C8_PersistentStaysWhileUnresolved ==
    [][\A kind \in {"Unconfigured", "DependencyMissing"} :
          (/\ PersistentVisible(status_label, kind)
           /\ ConditionHolds(kind, config)
           /\ ConditionHolds(kind, config'))
          => PersistentVisible(status_label', kind)]_vars

---------------------------------------------------------------------------
(* C9 *)

CandidateLists ==
    { <<>>,
      <<[parts |-> <<>>]>>,
      <<[parts |-> <<OtherPart>>]>>,
      <<[parts |-> <<TextPart(<<"o">>), OtherPart, TextPart(<<"k">>)>>]>> }

\* str() of the exceptions the service call may raise
ExceptionTexts ==
    { <<"400 ", "API key not valid", ". Please pass a valid API key.">>,
      <<"API_KEY_INVALID">>,
      <<"Quota", " exceeded">>,
      <<"429 ", "RESOURCE_EXHAUSTED">>,
      <<"504 ", "Deadline Exceeded">>,
      <<"PermissionDenied">>,
      <<"403 ", "Permission Denied">>,
      <<"404 ", "NotFound", ": ", "models/", "gemini-1.5-flash">>,
      <<"404 ", "NotFound">>,
      <<"Quota", " exceeded: ", "API key not valid">>,
      <<"504 ", "Deadline Exceeded", " (", "quota", ")">>,
      <<"PermissionDenied", ": ", "Deadline Exceeded">>,
      <<"NotFound", ": ", "models/", "x", ": ", "permission denied">>,
      <<"429 ", "QUOTA", " exceeded">>,
      <<"403 ", "Permission denied">>,
      <<"connection reset">> }

\* Every reply run can meet: responses of every shape, and exceptions.
RunReplies ==
    { [kind |-> "response",
       response |-> [truthy |-> t, text_error |-> te, text |-> tx,
                     text_exc |-> <<"text failed">>,
                     has_candidates |-> hc, candidates |-> c,
                     has_prompt_feedback |-> hf, block_reason |-> br]] :
        t \in BOOLEAN, te \in {"none", "ValueError", "other"},
        tx \in {EmptyStr, <<"ok">>}, hc \in BOOLEAN, c \in CandidateLists,
        hf \in BOOLEAN, br \in {"", "SAFETY"} }
    \cup { Raise(e) : e \in ExceptionTexts }

ExactlyOneOutcome(emits) == Len(emits) = 1 /\ IsOutcome(emits[1])

\* C9: a worker that is started emits exactly one of response_received
\* and error_occurred on every path of run (library missing, credential
\* missing, each shape of response, each exception); the run of a thread
\* queues exactly one outcome, when it returns before the request or
\* when the service has answered and not in between, finished is queued
\* behind it, and when on_worker_finished runs nothing of the dispatch
\* is left to handle.
C9_ExactlyOneOutcomeBeforeFinished ==
    [][/\ Dispatch =>
            \A avail \in BOOLEAN, api_key \in {EmptyStr, worker'.api_key},
               reply \in RunReplies :
                ExactlyOneOutcome(run(avail, api_key, worker'.message,
                                      worker'.history, reply).emits)
       /\ WorkerRequest =>
            IF \E i \in DOMAIN threads' : threads'[i].state = "returned"
            THEN /\ Len(ui_queue') = Len(ui_queue) + 1
                 /\ IsOutcome(Last(ui_queue'))
            ELSE ui_queue' = ui_queue
       /\ WorkerRun =>
            /\ Len(ui_queue') = Len(ui_queue) + 1
            /\ IsOutcome(Last(ui_queue'))
            /\ \A j \in DOMAIN ui_queue : ui_queue[j].sig # "finished"
       /\ WorkerExit =>
            /\ ui_queue' = Append(ui_queue, Finished)
            /\ Len(ui_queue) <= 1
       /\ on_worker_finished => (ui_queue' = <<>> /\ threads = <<>>)]_vars

\* The text was taken from the candidate's parts, handle_response put it
\* in the transcript, and on_worker_finished ran after that.
C9_Witness ==
    /\ handler = "on_worker_finished"
    /\ ui_queue = <<>>
    /\ threads = <<>>
    /\ chat_history = Append(worker.history, Turn("model", <<"o", "k">>))

---------------------------------------------------------------------------
(* C10 *)

\* C10: the transcript changes only by one turn appended at its end (a
\* send that dispatches, or handle_response), by its last turn, a User
\* turn, removed by handle_error, or by being emptied by a settings save,
\* which empties the blocks too; in each case the other turns stay as
\* they were; and a send that is turned down, the dialog being opened or
\* cancelled, a colour being chosen, a timer expiry, on_worker_finished
\* and the worker's own steps leave it as it was.
C10_TranscriptChanges ==
    [][/\ chat_history' # chat_history =>
            \/ /\ Dispatch \/ handle_response
               /\ Len(chat_history') = Len(chat_history) + 1
               /\ Front(chat_history') = chat_history
            \/ /\ handle_error
               /\ chat_history # <<>>
               /\ Last(chat_history).role = "user"
               /\ chat_history' = Front(chat_history)
            \/ /\ SaveSettings
               /\ chat_history' = <<>>
       /\ SaveSettings => (chat_history' = <<>> /\ chat_layout' = <<>>)
       /\ (\/ TurnedDownSend \/ open_settings \/ ChooseColor \/ reject
           \/ timer_expiry \/ on_worker_finished \/ WorkerRequest
           \/ WorkerRun \/ WorkerExit)
            => chat_history' = chat_history]_vars

\* Settings were saved while a question was in flight: the transcript and
\* the blocks, which held that question, are empty.
C10_Witness ==
    /\ handler = "on_settings_changed"
    /\ threads # <<>>
    /\ worker.history # <<>>
    /\ chat_history = <<>>
    /\ chat_layout = <<>>

---------------------------------------------------------------------------
(* The worker alone: one GeminiWorker with constructor arguments drawn    *)
(* from bounded sets, run against every reply of RunReplies, its signals  *)
(* handled by the window.                                                 *)

RunHistories ==
    { <<>>,
      <<Turn("user", <<"hello">>)>>,
      <<Turn("user", <<"hi">>), Turn("model", <<"ok">>), Turn("user", <<"hello">>)>> }

InitRun ==
    /\ GOOGLE_AI_AVAILABLE \in BOOLEAN
    /\ config_file = [kind |-> "absent"]
    /\ \E api_key \in DialogKeys, history \in RunHistories :
        /\ config = [DEFAULT_CONFIG EXCEPT !["api_key"] = api_key]
        /\ worker = [api_key |-> api_key, message |-> <<"hello">>, history |-> history]
        /\ chat_history = history
    /\ chat_layout = <<>>
    /\ message_input = EmptyStr
    /\ message_input_enabled = EnabledWhileDispatching
    /\ send_button_enabled = EnabledWhileDispatching
    /\ LET st == show_status_message(BlankLabel, <<>>, <<"AI is thinking...">>,
                                     FALSE, DefaultDuration)
       IN  status_label = st.label /\ timers = st.timers
    /\ threads = <<[w |-> worker, state |-> "running", called |-> FALSE]>>
    /\ ui_queue = <<>>
    /\ service_call = NoCall
    /\ dialog_open = FALSE
    /\ selected_color = NoColor
    /\ handler = "send_message"

WorkerRunAny == \E i \in DOMAIN threads : \E reply \in RunReplies : worker_run(i, reply)

NextRun ==
    \/ WorkerRequest
    \/ WorkerRunAny
    \/ WorkerExit
    \/ handle_response
    \/ handle_error
    \/ on_worker_finished
    \/ timer_expiry

SpecRun == InitRun /\ [][NextRun]_vars

\* The step is the run of a worker that gets past the checks of lines
\* 80-85 and meets this reply.
RunMeets(reply) ==
    /\ GOOGLE_AI_AVAILABLE
    /\ \E i \in DOMAIN threads :
        threads[i].w.api_key # EmptyStr /\ worker_run(i, reply)

---------------------------------------------------------------------------
(* C11 *)

\* The outcome of section 4.2 that a signal stands for.
OutcomeOf(ev) ==
    IF ev.sig = "response_received" THEN [kind |-> "Success", text |-> ev.arg]
    ELSE IF Head(ev.arg) = "Request blocked: "
    THEN [kind |-> "Blocked", text |-> <<ev.arg[2]>>]
    ELSE IF ev.arg \in { <<"Received an empty or unexpected response format from the API.">>,
                         <<"API response candidate parts contained no text.">> }
    THEN [kind |-> "EmptyResponse", text |-> EmptyStr]
    ELSE [kind |-> "Other", text |-> ev.arg]

\* The outcome C11 gives a response: (a) its text, (b) else the text of
\* the first candidate's parts, (c) else Blocked when it carries a block
\* reason, (d) else EmptyResponse.
InterpretationOrder(response) ==
    IF ~response.truthy THEN [kind |-> "EmptyResponse", text |-> EmptyStr]
    ELSE IF response.text_error = "none"
    THEN [kind |-> "Success", text |-> response.text]
    ELSE IF /\ response.has_candidates
            /\ response.candidates # <<>>
            /\ JoinPartTexts(response.candidates[1].parts) # EmptyStr
    THEN [kind |-> "Success", text |-> JoinPartTexts(response.candidates[1].parts)]
    ELSE IF response.has_prompt_feedback /\ response.block_reason # ""
    THEN [kind |-> "Blocked", text |-> <<response.block_reason>>]
    ELSE [kind |-> "EmptyResponse", text |-> EmptyStr]

\* C11: for every response the service returns (reading its text gives
\* the text or raises ValueError), run emits one signal, and its outcome
\* is the one the interpretation order (a), (b), (c), (d) gives.
C11_InterpretationOrder ==
    [][\A reply \in RunReplies :
          (/\ reply.kind = "response"
           /\ reply.response.text_error \in {"none", "ValueError"}
           /\ RunMeets(reply))
          => /\ Len(ui_queue') = Len(ui_queue) + 1
             /\ OutcomeOf(Last(ui_queue')) = InterpretationOrder(reply.response)]_vars

---------------------------------------------------------------------------
(* C12 *)

\* The failure C12 gives an exception text: the first marker that
\* matches, in the order of the claim, decides.
FailureOf(e) ==
    IF Contains(e, "API key not valid") \/ Contains(e, "API_KEY_INVALID")
    THEN "InvalidCredential"
    ELSE IF Contains(Lower(e), "quota") \/ Contains(e, "RESOURCE_EXHAUSTED")
    THEN "QuotaExceeded"
    ELSE IF Contains(e, "Deadline Exceeded") THEN "Timeout"
    ELSE IF Contains(e, "PermissionDenied") \/ Contains(Lower(e), "permission denied")
    THEN "PermissionDenied"
    ELSE IF Contains(e, "NotFound") /\ Contains(e, "models/") THEN "ModelNotFound"
    ELSE "Unknown"

\* The message the window is given for each failure.
FailureMessage(failure, e) ==
    CASE failure = "InvalidCredential" ->
            <<"API Error: Invalid API Key. Please check it in Settings.">>
      [] failure = "QuotaExceeded" ->
            <<"API Error: Quota exceeded. Please check your Google AI usage limits.">>
      [] failure = "Timeout" -> <<"API Error: Request timed out. Please try again.">>
      [] failure = "PermissionDenied" ->
            <<"API Error: Permission denied. Check API key permissions.">>
      [] failure = "ModelNotFound" ->
            <<"API Error: Model not found. Check the model name.">>
      [] failure = "Unknown" -> <<"API Error: ">> \o e

\* str() of the exception a reply makes run handle at line 124
RaisedText(reply) ==
    IF reply.kind = "raise" THEN reply.e ELSE reply.response.text_exc

\* C12: every exception raised by the service call, or by reading the
\* response, ends the run with exactly one error_occurred signal, whose
\* message is that of the first failure whose marker the exception text
\* holds, and the original text after "API Error: " when none matches;
\* the thread returns from run.
C12_ExceptionClassification ==
    [][\A reply \in RunReplies :
          (/\ \/ reply.kind = "raise"
              \/ reply.response.truthy /\ reply.response.text_error = "other"
           /\ RunMeets(reply))
          => /\ ui_queue' = Append(ui_queue,
                    ErrorOccurred(FailureMessage(FailureOf(RaisedText(reply)),
                                                 RaisedText(reply))))
             /\ \A i \in DOMAIN threads' : threads'[i].state = "returned"]_vars

\* An exception that matches no marker was reported to the window with
\* its own text.
C12_Witness ==
    /\ handler = "handle_error"
    /\ status_label.visible
    /\ status_label.text = <<"API Error: ", "connection reset">>
    /\ threads # <<>>

---------------------------------------------------------------------------
(* The start of the program: config = load_config() at line 63, for every *)
(* state of the config file drawn from bounded sets.                      *)

FileApiKeys == { EmptyStr, <<"k1">> }
FileThemes == { "light", "dark" }
ValidColors == { "#3498db", "#ff0000", "red" }
\* strings QColor() takes without raising, giving an invalid colour
InvalidColorStrings == { "notacolor", "#12", "" }
FileColors == ValidColors \cup InvalidColorStrings \cup {"<list>"}

\* no value (the key is missing) or one value of S
Optional(S) == {{}} \cup { {x} : x \in S }

\* the JSON object with the keys whose choice is not empty
ObjectData(a, t, c) ==
    LET choice(k) == IF k = "api_key" THEN a ELSE IF k = "theme" THEN t ELSE c
    IN  [k \in { k \in ConfigKeys : choice(k) # {} } |-> CHOOSE x \in choice(k) : TRUE]

\* what JSON arrays of pairs give dict.update(): [["theme", "dark"]],
\* [["api_key", "k1"], ["accent_color", "red"]] and ["ab"]
PairsData ==
    { [theme |-> "dark"],
      [api_key |-> <<"k1">>, accent_color |-> "red"],
      [a |-> "b"] }

ConfigFiles ==
    { [kind |-> k] : k \in {"absent", "unreadable", "undecodable", "malformed",
                            "unloadable", "nonobject", "emptyseq"} }
    \cup { [kind |-> "object", data |-> ObjectData(a, t, c)] :
             a \in Optional(FileApiKeys), t \in Optional(FileThemes),
             c \in Optional(FileColors) }
    \cup { [kind |-> "pairs", data |-> d] : d \in PairsData }

\* The module is being imported: DEFAULT_CONFIG is defined, config is not
\* yet loaded, no window exists.
InitConfig ==
    /\ GOOGLE_AI_AVAILABLE \in BOOLEAN
    /\ config_file \in ConfigFiles
    /\ config = DEFAULT_CONFIG
    /\ chat_history = <<>>
    /\ chat_layout = <<>>
    /\ message_input = EmptyStr
    /\ message_input_enabled = TRUE
    /\ send_button_enabled = TRUE
    /\ status_label = BlankLabel
    /\ timers = <<>>
    /\ worker = NoWorker
    /\ threads = <<>>
    /\ ui_queue = <<>>
    /\ service_call = NoCall
    /\ dialog_open = FALSE
    /\ selected_color = NoColor
    /\ handler = "import"

\* line 63: config = load_config(); an exception ends the import
LoadConfig ==
    /\ handler = "import"
    /\ LET r == load_config(config_file)
       IN  IF r.raised
           THEN /\ handler' = "load_config raised"
                /\ config' = config
           ELSE /\ handler' = "load_config"
                /\ config' = r.value
    /\ UNCHANGED <<GOOGLE_AI_AVAILABLE, config_file, chat_history, chat_layout,
                   message_input, message_input_enabled, send_button_enabled,
                   status_label, timers, worker, threads, ui_queue,
                   service_call, dialog_open,
                   selected_color>>

NextConfig == LoadConfig

SpecConfig == InitConfig /\ [][NextConfig]_vars

\* load_config has been called on config_file
Loaded == handler # "import"

\* the file holds an object with the keys api_key, theme, accent_color
\* or fewer
IsObjectFile == config_file.kind = "object" /\ DOMAIN config_file.data \subseteq ConfigKeys

\* the value the file gives key k, the default when the key is missing
FileOrDefault(k) ==
    IF k \in DOMAIN config_file.data THEN config_file.data[k] ELSE DEFAULT_CONFIG[k]

---------------------------------------------------------------------------
(* C13 *)

\* C13: for a file holding an object with any subset of the three keys
\* and valid values, load_config returns a record with exactly the three
\* keys, each with the file's value when present and the default when
\* missing.
C13_MissingFieldsTakeDefaults ==
    (/\ Loaded
     /\ IsObjectFile
     /\ "accent_color" \in DOMAIN config_file.data
            => config_file.data["accent_color"] \in ValidColors)
    => /\ handler = "load_config"
       /\ DOMAIN config = ConfigKeys
       /\ \A k \in ConfigKeys : config[k] = FileOrDefault(k)

\* A file with only a theme was loaded: the theme is the file's, the
\* credential and the colour are the defaults.
C13_Witness ==
    /\ handler = "load_config"
    /\ config_file = [kind |-> "object", data |-> [theme |-> "dark"]]
    /\ config = [api_key |-> EmptyStr, theme |-> "dark", accent_color |-> "#3498db"]

---------------------------------------------------------------------------
(* C14 *)

\* C14: for a file holding an object whose accent_color is a string that
\* is no valid colour, load_config returns the default accent colour and
\* the other fields as the file gives them.
C14_InvalidAccentRevertsToDefault ==
    (/\ Loaded
     /\ IsObjectFile
     /\ "accent_color" \in DOMAIN config_file.data
     /\ config_file.data["accent_color"] \in InvalidColorStrings)
    => /\ handler = "load_config"
       /\ config["accent_color"] = DEFAULT_CONFIG["accent_color"]
       /\ \A k \in ConfigKeys \ {"accent_color"} : config[k] = FileOrDefault(k)

---------------------------------------------------------------------------
(* C15 *)

\* C15: whatever the state of the file, load_config returns a record
\* with the three keys and does not raise; for a file that is absent,
\* unreadable, not JSON or no JSON object the record is the defaults.
C15_LoadFailsSoft ==
    Loaded
    => /\ handler = "load_config"
       /\ ConfigKeys \subseteq DOMAIN config
       /\ config_file.kind # "object" => config = DEFAULT_CONFIG

---------------------------------------------------------------------------
(* C16 *)

\* A dispatch is outstanding: send_message disabled the input and the
\* button, and on_worker_finished has not enabled them again.
Dispatched == ~message_input_enabled \/ ~send_button_enabled

\* The dispatch is over: its outcome and its finished signal were
\* handled, no thread is left, on_worker_finished ran last on the
\* worker's behalf and the input and the button are enabled.
Resolved ==
    /\ message_input_enabled
    /\ send_button_enabled
    /\ threads = <<>>
    /\ ui_queue = <<>>

\* C16: every dispatch started by send_message is eventually resolved:
\* from every state with the input disabled, a state is reached where
\* the outcome and the finished signal have been handled and the input
\* and the send button are enabled, whatever the user does meanwhile
\* (saving settings included).
C16_EveryDispatchResolves == Dispatched ~> Resolved

\* A dispatch was resolved although settings were saved while it was in
\* flight: the transcript holds the reply alone.
C16_Witness ==
    /\ handler = "on_worker_finished"
    /\ Resolved
    /\ chat_history = <<Turn("model", <<"ok">>)>>

---------------------------------------------------------------------------
(* C17 *)

\* The label visibly shows a notification that the credential is missing.
ShowsCredentialMissing == status_label.visible /\ Contains(status_label.text, KeyMarker)

\* C17: whenever the status label visibly shows a credential-missing
\* notification, the configured credential is empty; so after settings
\* are saved with a credential, the library being available, the
\* notification is gone.
C17_CredentialNoticeOnlyWhileUnconfigured ==
    ShowsCredentialMissing => config["api_key"] = EmptyStr

---------------------------------------------------------------------------
(* C18 *)

\* block and turn have the same role and the same text
Renders(block, turn) == block.sender = turn.role /\ <<block.text>> = turn.parts

\* C18: whenever no dispatch is in flight, the rendered blocks and the
\* turns of the transcript correspond one to one and in order, with the
\* same role and the same text.
C18_BlocksMatchTranscript ==
    (InFlight = 0 /\ ui_queue = <<>>)
    => /\ Len(chat_layout) = Len(chat_history)
       /\ \A i \in DOMAIN chat_layout : Renders(chat_layout[i], chat_history[i])

---------------------------------------------------------------------------
(* C19 *)

\* The step is the expiry of a timer that hides the visible notification.
TimerHides == timer_expiry /\ status_label.visible /\ ~status_label'.visible

\* Timers of one duration fire in the order of their scheduling, so the
\* pending timers are in the order of the showings that scheduled them.
\* A notification that a timer can hide has a transient text, its
\* showing scheduled a timer, and no showing came after it: while it is
\* visible its own timer is the last pending one.  The timer that fires
\* is the first pending one.
FiringIsOwnTimer == Len(timers) = 1

\* C19: a visible notification is hidden by a timer only when that timer
\* is the one scheduled by the showing that made it visible; a timer
\* pending from an earlier showing, of a different or of the same text,
\* hides nothing shown later.
C19_OnlyOwnTimerHides == [][TimerHides => FiringIsOwnTimer]_vars

\* C19 amended: a timer whose text differs from the visible text, which
\* is then pending from an earlier showing, leaves the notification as
\* it is; and a timer that hides the notification carries its text.
C19_TimerOfOtherTextNeverHides ==
    [][/\ (timer_expiry /\ status_label.visible
             /\ Head(timers).message # status_label.text)
          => status_label' = status_label
       /\ TimerHides => Head(timers).message = status_label.text]_vars

\* The timer of "AI is thinking..." fired while the failure shown after
\* it was visible with its own timer pending, and the failure stayed.
C19_Witness ==
    /\ handler = "hide_specific_status_message"
    /\ status_label.visible
    /\ status_label.text = <<"API Error: ", "connection reset">>
    /\ Len(timers) = 1
    /\ timers[1].message = status_label.text

====
